---- MODULE Spec2Model ----
(***************************************************************************)
(* Recipe Master (src/app.js): the cookbook store with its localStorage    *)
(* mirror, and the results pane driven by search submissions.              *)
(*                                                                         *)
(* JavaScript values are modelled as records that carry their runtime type *)
(* so that the dynamic failures of the code (calling an array method on a  *)
(* value that is no array, reading a property of null) are computed from   *)
(* the value and not assumed away.  A text held by localStorage is the     *)
(* sequence of its lexical tokens (the separators ':' and ',' left out).   *)
(***************************************************************************)
EXTENDS Integers, Sequences, FiniteSets, TLC

VARIABLES
    cookbook,       \* state.cookbook: a JavaScript value, see Arr
    searchResults,  \* state.searchResults: a sequence of recipe records
    activeCategory, \* state.activeCategory: a category name or null
    isLoading,      \* state.isLoading
    elements,       \* the results pane of the document, see InitialElements
    pending,        \* the calls of async handlers suspended at an await
    localStorage,   \* the item 'recipeMaster_cookbook' of window.localStorage
    last            \* what the last handler run did: operation, notice, write

vars == <<cookbook, searchResults, activeCategory, isLoading, elements, pending,
          localStorage, last>>

(***************************************************************************)
(* Bounds of the model.                                                    *)
(***************************************************************************)
\* longest list of entries the durable store holds at startup
MaxStored == 2
\* longest list of recipes a search response carries
MaxResults == 2
\* most handler calls suspended at an await at one time
MaxPending == 2
\* longest list of entries a category filter response carries
MaxFilter == 21
\* most numbered slots of a recipe record that hold a value
MaxFilled == 2
\* longest text typed into the search box
MaxInput == 2

(***************************************************************************)
(* Values.                                                                 *)
(***************************************************************************)
null == "null"
undefined == "undefined"

MealIds == {"m1", "m2"}
Categories == {"Seafood", "Dessert"}

\* a recipe record as the remote source or a saved file gives it
Meal(id, cat) == [type |-> "object", idMeal |-> id, strCategory |-> cat]

\* the records of the remote source: one has a category label, one has none
Meals == {Meal("m1", "Seafood"), Meal("m2", null)}

\* elements of a parsed list that are no recipe records
JsonNullElem == [type |-> "null", idMeal |-> undefined, strCategory |-> undefined]
JsonNumberElem == [type |-> "number", idMeal |-> undefined, strCategory |-> undefined]

\* a JavaScript array
Arr(items) == [type |-> "array", items |-> items, length |-> Len(items)]
\* a JavaScript value that is no array; length -1 stands for undefined
NonArr(type, length) == [type |-> type, items |-> <<>>, length |-> length]

IsEntryList(v) ==
    /\ v.type = "array"
    /\ \A i \in 1..Len(v.items) : v.items[i] \in Meals

(***************************************************************************)
(* JSON.stringify and JSON.parse over token sequences.  A string value is  *)
(* the token of its characters, the JSON literal null is the token "null", *)
(* a number is the token "5".                                              *)
(***************************************************************************)
StringifyElem(e) ==
    IF e.type = "object"
    THEN <<"{", "idMeal", e.idMeal, "strCategory", e.strCategory, "}">>
    ELSE IF e.type = "number" THEN <<"5">> ELSE <<"null">>

RECURSIVE StringifyItems(_)
StringifyItems(items) ==
    IF items = <<>> THEN <<>>
    ELSE StringifyElem(Head(items)) \o StringifyItems(Tail(items))

\* JSON.stringify(value)
JSON_stringify(v) ==
    IF v.type = "array" THEN <<"[">> \o StringifyItems(v.items) \o <<"]">>
    ELSE IF v.type = "string" THEN (IF v.length = 0 THEN <<"\"\"">> ELSE <<"\"abc\"">>)
    ELSE IF v.type = "number" THEN <<"5">>
    ELSE IF v.type = "object"
         THEN (IF v.length = 0 THEN <<"{", "length", "0", "}">> ELSE <<"{", "}">>)
    ELSE <<"null">>

SyntaxError == [ok |-> FALSE, value |-> NonArr("null", -1)]
Parsed(v) == [ok |-> TRUE, value |-> v]

\* the elements between the brackets of a list
RECURSIVE ParseItems(_)
ParseItems(toks) ==
    IF toks = <<>> THEN [ok |-> TRUE, items |-> <<>>]
    ELSE IF Head(toks) \in {"null", "5"}
    THEN LET rest == ParseItems(Tail(toks)) IN
         [ok |-> rest.ok,
          items |-> <<IF Head(toks) = "5" THEN JsonNumberElem ELSE JsonNullElem>>
                    \o rest.items]
    ELSE IF /\ Len(toks) >= 6
            /\ toks[1] = "{" /\ toks[2] = "idMeal" /\ toks[4] = "strCategory"
            /\ toks[6] = "}"
            /\ toks[3] \in MealIds /\ toks[5] \in Categories \cup {null}
    THEN LET rest == ParseItems(SubSeq(toks, 7, Len(toks))) IN
         [ok |-> rest.ok, items |-> <<Meal(toks[3], toks[5])>> \o rest.items]
    ELSE [ok |-> FALSE, items |-> <<>>]

\* JSON.parse(text): the value, or a SyntaxError
JSON_parse(text) ==
    IF text = <<"null">> THEN Parsed(NonArr("null", -1))
    ELSE IF text = <<"5">> THEN Parsed(NonArr("number", -1))
    ELSE IF text = <<"\"\"">> THEN Parsed(NonArr("string", 0))
    ELSE IF text = <<"\"abc\"">> THEN Parsed(NonArr("string", 3))
    ELSE IF text = <<"{", "}">> THEN Parsed(NonArr("object", -1))
    ELSE IF text = <<"{", "length", "0", "}">> THEN Parsed(NonArr("object", 0))
    ELSE IF Len(text) >= 2 /\ text[1] = "[" /\ text[Len(text)] = "]"
    THEN LET r == ParseItems(SubSeq(text, 2, Len(text) - 1)) IN
         IF r.ok THEN Parsed(Arr(r.items)) ELSE SyntaxError
    ELSE SyntaxError

(***************************************************************************)
(* The durable store.  getItem gives null when the key was never written.  *)
(***************************************************************************)
NoItem == [present |-> FALSE, text |-> <<>>]
Item(text) == [present |-> TRUE, text |-> text]

(***************************************************************************)
(* Rendering of the sidebar list, as far as it can fail.                   *)
(***************************************************************************)
\* createCookbookItem(meal) reads meal.idMeal: a TypeError when meal is null
createCookbookItemThrows(meal) == meal.type = "null"

\* renderCookbook() on state.cookbook = v throws a TypeError when v is null
\* (v.length), when v.length is not 0 and v has no forEach, or when an element
\* is null
renderCookbookThrows(v) ==
    IF v.type = "null" THEN TRUE
    ELSE IF v.length = 0 THEN FALSE
    ELSE IF v.type # "array" THEN TRUE
    ELSE \E i \in 1..Len(v.items) : createCookbookItemThrows(v.items[i])

(***************************************************************************)
(* isInCookbook(mealId) on state.cookbook = v: [threw, value].             *)
(* v.some is no function unless v is an array; the callback reads          *)
(* meal.idMeal of each element up to the first match.                      *)
(***************************************************************************)
\* findIndex with its "not found" taken for the last index, as splice(-1, 1)
\* would
findIndexOrLast(items, mealId) ==
    IF \E i \in 1..Len(items) : items[i].idMeal = mealId
    THEN CHOOSE i \in 1..Len(items) :
            /\ items[i].idMeal = mealId
            /\ \A j \in 1..(i - 1) : items[j].idMeal # mealId
    ELSE Len(items)

\* index of the first element whose idMeal is mealId, 0 when there is none
findIndex(items, mealId) ==
    IF \E i \in 1..Len(items) : items[i].idMeal = mealId
    THEN CHOOSE i \in 1..Len(items) :
            /\ items[i].idMeal = mealId
            /\ \A j \in 1..(i - 1) : items[j].idMeal # mealId
    ELSE 0

\* the callback meal => meal.idMeal === mealId throws on a null element that is
\* visited, i.e. one before the first match
findThrows(v, mealId) ==
    \/ v.type # "array"
    \/ LET k == findIndex(v.items, mealId)
           n == IF k = 0 THEN Len(v.items) ELSE k - 1
       IN \E i \in 1..n : v.items[i].type = "null"

\* isInCookbook that never finds the id
isInCookbookNever(v, mealId) ==
    [threw |-> v.type # "array", value |-> FALSE]

isInCookbook(v, mealId) ==
    IF findThrows(v, mealId) THEN [threw |-> TRUE, value |-> FALSE]
    ELSE [threw |-> FALSE, value |-> findIndex(v.items, mealId) > 0]

(***************************************************************************)
(* The results pane.  A card of the grid carries the id of its recipe, the *)
(* state of its Save button and its category label.                        *)
(***************************************************************************)
Card(mealId, saved, label) == [mealId |-> mealId, saved |-> saved, label |-> label]

\* the pane before any handler ran: nothing shown
InitialElements ==
    [loadingHidden |-> TRUE, messageHidden |-> TRUE, messageTitle |-> "",
     resultsTitleHidden |-> TRUE, recipeGrid |-> <<>>]

\* updateCardSaveButton(mealId, saved): the first card with that id, if any
updateCardSaveButton(grid, mealId, saved) ==
    IF \E i \in 1..Len(grid) : grid[i].mealId = mealId
    THEN LET k == CHOOSE i \in 1..Len(grid) :
                     /\ grid[i].mealId = mealId
                     /\ \A j \in 1..(i - 1) : grid[j].mealId # mealId
         IN [grid EXCEPT ![k].saved = saved]
    ELSE grid

\* mealIds.forEach(id => updateCardSaveButton(id, false))
RECURSIVE updateAllCardSaveButtons(_, _)
updateAllCardSaveButtons(grid, items) ==
    IF items = <<>> THEN grid
    ELSE updateAllCardSaveButtons(
             updateCardSaveButton(grid, Head(items).idMeal, FALSE), Tail(items))

(***************************************************************************)
(* What a handler run did, kept for the properties.                        *)
(***************************************************************************)
NoMeal == [type |-> "none", idMeal |-> undefined, strCategory |-> undefined]

\* the requests a run sent to the remote source: none, one search, one filter
\* or the look-ups of ids
NoFetch == [url |-> "none", ids |-> <<>>]
Fetch(url, ids) == [url |-> url, ids |-> ids]

\* the document a run handed to the file save mechanism: none
NoFile ==
    [via |-> "none", name |-> <<>>, content |-> <<>>, dialog |-> FALSE,
     picker |-> FALSE, choice |-> [kind |-> "none", name |-> <<>>], written |-> FALSE]

\* a handler call suspended at an await: the function, the await it stands at,
\* and its local variables categoryName and mealsToFetch (ids of the entries)
Suspended(op, stage, categoryName, ids) ==
    [op |-> op, stage |-> stage, categoryName |-> categoryName, ids |-> ids]

\* op: the function run; id, meal: its argument; toast: the type of the notice
\* raised ("none" when none); setItem: "none", "ok" or "failed"; threw: the run
\* ended in an uncaught error; logged: console.error was called; input: the
\* text of the search box it read; fetches: the requests it sent; file: the
\* document it wrote; categoryName: the category card clicked; listed: the ids
\* of the entries the filter request returned; absent: the positions of the
\* look-ups that resolved to no recipe; slots: the numbered ingredient and
\* measure fields of the record handed to parseIngredients; ingredients: the
\* list it returned; field: the collection field of the response body the run
\* read ("null", "undefined" or "array")
Ran(op, id, meal, toast, setItem, threw, logged) ==
    [op |-> op, id |-> id, meal |-> meal, toast |-> toast, setItem |-> setItem,
     threw |-> threw, logged |-> logged, input |-> <<>>, fetches |-> NoFetch,
     file |-> NoFile, categoryName |-> null, listed |-> <<>>, absent |-> {},
     slots |-> <<>>, ingredients |-> <<>>, field |-> "none"]

(***************************************************************************)
(* Cookbook management.                                                    *)
(***************************************************************************)
\* state.cookbook.push(meal)
push(v, meal) == Arr(Append(v.items, meal))

\* state.cookbook.splice(index, 1), index counted from 1
splice(v, index) ==
    Arr(SubSeq(v.items, 1, index - 1) \o SubSeq(v.items, index + 1, Len(v.items)))

\* saveCookbookToStorage that leaves the item as it was
saveCookbookToStorageSkipped(v, storage, ok) == storage

\* saveCookbookToStorage whose failed write empties the item
saveCookbookToStorageTruncating(v, storage, ok) ==
    IF ok THEN Item(JSON_stringify(v)) ELSE Item(<<>>)

\* saveCookbookToStorage(): the item after the call; setItem throws when the
\* quota is exceeded (ok = FALSE), which is caught and logged
saveCookbookToStorage(v, storage, ok) ==
    IF ok THEN Item(JSON_stringify(v)) ELSE storage

\* loadCookbookFromStorage(): state.cookbook after the call, [] before it
loadCookbookFromStorage(storage) ==
    IF ~storage.present \/ storage.text = <<>> THEN Arr(<<>>)
    ELSE LET p == JSON_parse(storage.text) IN
         IF ~p.ok THEN Arr(<<>>)
         ELSE IF renderCookbookThrows(p.value) THEN Arr(<<>>)
         ELSE p.value

\* the catch block of loadCookbookFromStorage ran
loadCaught(storage) ==
    /\ storage.present /\ storage.text # <<>>
    /\ LET p == JSON_parse(storage.text) IN
       ~p.ok \/ renderCookbookThrows(p.value)

\* a cookbook handler that resets the search as a reload does
ResetsPane ==
    /\ searchResults' = <<>> /\ activeCategory' = null
    /\ UNCHANGED <<isLoading, pending>>

UnchangedPane == UNCHANGED <<searchResults, activeCategory, isLoading, pending>>

addToCookbook(meal, ok) ==
    LET found == isInCookbook(cookbook, meal.idMeal) IN
    /\ UnchangedPane
    /\ IF found.threw
       THEN /\ last' = Ran("addToCookbook", meal.idMeal, meal, "none", "none", TRUE, FALSE)
            /\ UNCHANGED <<cookbook, elements, localStorage>>
       ELSE IF found.value
       THEN /\ last' = Ran("addToCookbook", meal.idMeal, meal, "info", "none", FALSE, FALSE)
            /\ UNCHANGED <<cookbook, elements, localStorage>>
       ELSE IF renderCookbookThrows(push(cookbook, meal))
       THEN /\ cookbook' = push(cookbook, meal)
            /\ last' = Ran("addToCookbook", meal.idMeal, meal, "none", "none", TRUE, FALSE)
            /\ UNCHANGED <<elements, localStorage>>
       ELSE /\ cookbook' = push(cookbook, meal)
            /\ elements' = [elements EXCEPT !.recipeGrid =
                               updateCardSaveButton(@, meal.idMeal, TRUE)]
            /\ localStorage' = saveCookbookToStorage(cookbook', localStorage, ok)
            /\ last' = Ran("addToCookbook", meal.idMeal, meal, "success",
                           IF ok THEN "ok" ELSE "failed", FALSE, ~ok)

removeFromCookbook(mealId, ok) ==
    /\ UnchangedPane
    /\ IF findThrows(cookbook, mealId)
       THEN /\ last' = Ran("removeFromCookbook", mealId, NoMeal, "none", "none", TRUE, FALSE)
            /\ UNCHANGED <<cookbook, elements, localStorage>>
       ELSE LET index == findIndex(cookbook.items, mealId) IN
            IF index > 0
            THEN /\ cookbook' = splice(cookbook, index)
                 /\ elements' = [elements EXCEPT !.recipeGrid =
                                    updateCardSaveButton(@, mealId, FALSE)]
                 /\ localStorage' = saveCookbookToStorage(cookbook', localStorage, ok)
                 /\ last' = Ran("removeFromCookbook", mealId, cookbook.items[index],
                                "info", IF ok THEN "ok" ELSE "failed", FALSE, ~ok)
            ELSE /\ last' = Ran("removeFromCookbook", mealId, NoMeal, "none", "none",
                                FALSE, FALSE)
                 /\ UNCHANGED <<cookbook, elements, localStorage>>

\* confirm whose answer is not looked at
confirmIgnored(answer) == TRUE

\* confirm(message): the answer the user gives to the dialog
confirm(answer) == answer

\* confirmed: what the user answers when asked, which is only when the cookbook
\* is not empty
clearCookbook(confirmed, ok) ==
    /\ UnchangedPane
    /\ IF cookbook.type = "null"
       THEN /\ last' = Ran("clearCookbook", "threw", NoMeal, "none", "none", TRUE, FALSE)
            /\ UNCHANGED <<cookbook, elements, localStorage>>
       ELSE IF cookbook.length = 0
       THEN /\ last' = Ran("clearCookbook", "empty", NoMeal, "none", "none", FALSE, FALSE)
            /\ UNCHANGED <<cookbook, elements, localStorage>>
       ELSE IF ~confirm(confirmed)
       THEN /\ last' = Ran("clearCookbook", IF confirmed THEN "confirmed" ELSE "declined",
                           NoMeal, "none", "none", FALSE, FALSE)
            /\ UNCHANGED <<cookbook, elements, localStorage>>
       ELSE IF cookbook.type # "array"
       THEN /\ last' = Ran("clearCookbook", "threw", NoMeal, "none", "none", TRUE, FALSE)
            /\ UNCHANGED <<cookbook, elements, localStorage>>
       ELSE /\ cookbook' = Arr(<<>>)
            /\ elements' = [elements EXCEPT !.recipeGrid =
                               updateAllCardSaveButtons(@, cookbook.items)]
            /\ localStorage' = saveCookbookToStorage(cookbook', localStorage, ok)
            /\ last' = Ran("clearCookbook", IF confirmed THEN "confirmed" ELSE "declined",
                           NoMeal, "info", IF ok THEN "ok" ELSE "failed", FALSE, ~ok)

(***************************************************************************)
(* File export.  A file name is a sequence of characters; a document is a  *)
(* sequence of tokens.  The records of the model carry idMeal and          *)
(* strCategory only, so the other fields are undefined: JSON.stringify     *)
(* leaves them out, the text shows the id where the name would be, and     *)
(* parseIngredients gives the empty list.                                  *)
(***************************************************************************)
\* a test of the suffix that looks for it anywhere in the name
includes(name, suffix) ==
    \E k \in 1..(Len(name) - Len(suffix) + 1) :
        SubSeq(name, k, k + Len(suffix) - 1) = suffix

\* String.prototype.endsWith
endsWith(name, suffix) ==
    /\ Len(name) >= Len(suffix)
    /\ SubSeq(name, Len(name) - Len(suffix) + 1, Len(name)) = suffix

\* names the user can type into the save dialog
FileNames ==
    {<<"a", ".", "j", "s", "o", "n">>, <<"a", ".", "t", "x", "t">>, <<"a">>,
     <<"a", ".", "j", "s", "o", "n", ".", "t", "x", "t">>, <<".", "j", "s", "o", "n">>,
     <<"j", "s", "o", "n">>, <<"a", ".", "J", "S", "O", "N">>}

\* how window.showSaveFilePicker settles: the user cancels, the browser
\* refuses, or a file is chosen
PickerOutcomes ==
    {[kind |-> "AbortError", name |-> <<>>], [kind |-> "SecurityError", name |-> <<>>]}
    \cup {[kind |-> "handle", name |-> n] : n \in FileNames}

\* state.cookbook.map / state.cookbook.forEach with the property reads of the
\* callback end in a TypeError
formatThrows(v) ==
    \/ v.type # "array"
    \/ \E i \in 1..Len(v.items) : v.items[i].type = "null"

\* the object literal of the map callback, stringified
ExportElem(e) ==
    IF e.type = "object"
    THEN <<"{", "id", e.idMeal, "category", e.strCategory, "ingredients", "[", "]", "}">>
    ELSE <<"{", "ingredients", "[", "]", "}">>

RECURSIVE ExportItems(_)
ExportItems(items) ==
    IF items = <<>> THEN <<>> ELSE ExportElem(Head(items)) \o ExportItems(Tail(items))

\* the section of one recipe in the text document
RecipeText(e, index) ==
    <<"Recipe", ToString(index), IF e.type = "object" THEN e.idMeal ELSE undefined,
      "Category:", IF e.type = "object" /\ e.strCategory # null THEN e.strCategory
                   ELSE "N/A",
      "INGREDIENTS:", "INSTRUCTIONS:">>

RECURSIVE RecipeTexts(_, _)
RecipeTexts(items, k) ==
    IF k = 0 THEN <<>> ELSE RecipeTexts(items, k - 1) \o RecipeText(items[k], k)

\* formatCookbookForExport(format), for a cookbook on which it does not throw
formatCookbookForExport(v, format) ==
    IF format = "json" THEN <<"[">> \o ExportItems(v.items) \o <<"]">>
    ELSE <<"MY RECIPE COOKBOOK">> \o RecipeTexts(v.items, Len(v.items))
            \o <<"Thank you for using Recipe Master!">>

\* an emptiness test that lets every cookbook through
isEmptyNever(v) == FALSE

\* state.cookbook.length === 0
isEmpty(v) == v.length = 0

\* exportCookbook() with fallbackExport().  picker: the browser has
\* showSaveFilePicker; choice: how the dialog settles; written: createWritable,
\* write and close succeed.  The document is formatted from state.cookbook in
\* the turn in which the dialog settles and nothing of the state is read or
\* written after it, so the awaits are not split into steps.
exportCookbook(picker, choice, written) ==
    LET asked == [NoFile EXCEPT !.picker = picker, !.choice = choice,
                                !.written = written]
        shown == [asked EXCEPT !.dialog = TRUE]
        format == IF endsWith(choice.name, <<".", "j", "s", "o", "n">>) THEN "json"
                  ELSE "txt"
        failed == [Ran("exportCookbook", "failed", NoMeal, "error", "none", FALSE, TRUE)
                      EXCEPT !.file = shown]
    IN
    /\ UNCHANGED <<cookbook, searchResults, activeCategory, isLoading, elements,
                   pending, localStorage>>
    /\ last' =
          IF cookbook.type = "null"
          THEN [Ran("exportCookbook", "threw", NoMeal, "none", "none", TRUE, FALSE)
                   EXCEPT !.file = asked]
          ELSE IF isEmpty(cookbook)
          THEN [Ran("exportCookbook", "empty", NoMeal, "error", "none", FALSE, FALSE)
                   EXCEPT !.file = asked]
          ELSE IF picker
          THEN IF choice.kind = "AbortError"
               THEN [Ran("exportCookbook", "cancelled", NoMeal, "none", "none", FALSE,
                         FALSE) EXCEPT !.file = shown]
               ELSE IF choice.kind # "handle" THEN failed
               ELSE IF formatThrows(cookbook) \/ ~written THEN failed
               ELSE [Ran("exportCookbook", "exported", NoMeal, "success", "none", FALSE,
                         FALSE)
                        EXCEPT !.file = [shown EXCEPT
                                            !.via = "picker", !.name = choice.name,
                                            !.content = formatCookbookForExport(
                                                            cookbook, format)]]
          ELSE IF formatThrows(cookbook)
          THEN [Ran("fallbackExport", "threw", NoMeal, "none", "none", TRUE, FALSE)
                   EXCEPT !.file = asked]
          ELSE [Ran("fallbackExport", "downloaded", NoMeal, "success", "none", FALSE,
                    FALSE)
                   EXCEPT !.file = [asked EXCEPT
                                       !.via = "download",
                                       !.name = <<"my-cookbook-", "date", ".txt">>,
                                       !.content = formatCookbookForExport(
                                                       cookbook, "txt")]]

(***************************************************************************)
(* UI state management of the results pane.                                *)
(***************************************************************************)
\* showLoading that leaves the earlier results in place
showLoadingOverResults(el) == [el EXCEPT !.loadingHidden = FALSE]

showLoading(el) ==
    [el EXCEPT !.loadingHidden = FALSE, !.messageHidden = TRUE,
               !.resultsTitleHidden = TRUE, !.recipeGrid = <<>>]

hideLoading(el) == [el EXCEPT !.loadingHidden = TRUE]

showMessage(el, title) ==
    [el EXCEPT !.messageTitle = title, !.messageHidden = FALSE,
               !.resultsTitleHidden = TRUE]

hideMessage(el) == [el EXCEPT !.messageHidden = TRUE]

\* createRecipeCard(meal), which calls isInCookbook(meal.idMeal)
createRecipeCardThrows(cb, meal) == isInCookbook(cb, meal.idMeal).threw

createRecipeCard(cb, meal) ==
    Card(meal.idMeal, isInCookbook(cb, meal.idMeal).value,
         IF meal.strCategory = null THEN "Uncategorized" ELSE meal.strCategory)

\* number of cards meals.forEach appends before createRecipeCard throws
cardsRendered(cb, meals) ==
    IF \E i \in 1..Len(meals) : createRecipeCardThrows(cb, meals[i])
    THEN (CHOOSE i \in 1..Len(meals) :
             /\ createRecipeCardThrows(cb, meals[i])
             /\ \A j \in 1..(i - 1) : ~createRecipeCardThrows(cb, meals[j])) - 1
    ELSE Len(meals)

renderRecipeCardsThrows(cb, meals) == cardsRendered(cb, meals) < Len(meals)

\* renderRecipeCards(meals, titleText): the pane after the call, also when it
\* ended in a TypeError part of the way
renderRecipeCards(el, cb, meals) ==
    IF meals = <<>> THEN [el EXCEPT !.recipeGrid = <<>>]
    ELSE [el EXCEPT !.resultsTitleHidden = FALSE,
                    !.recipeGrid = [i \in 1..cardsRendered(cb, meals) |->
                                       createRecipeCard(cb, meals[i])]]

(***************************************************************************)
(* Search.  The text of the search box is a sequence of characters.        *)
(***************************************************************************)
Chars == {" ", "c"}

RECURSIVE trimStart(_)
trimStart(t) == IF t # <<>> /\ Head(t) = " " THEN trimStart(Tail(t)) ELSE t

RECURSIVE trimEnd(_)
trimEnd(t) ==
    IF t # <<>> /\ t[Len(t)] = " " THEN trimEnd(SubSeq(t, 1, Len(t) - 1)) ELSE t

\* trim that leaves the text as typed
trimNothing(t) == t

\* String.prototype.trim
trim(t) == trimEnd(trimStart(t))

\* data.meals || [], for a collection field that is null, undefined (not in
\* the body) or an array
orEmpty(field, items) == IF field = "array" THEN items ELSE <<>>

\* what the fetch of searchMeals can settle with: rejected is a transport error,
\* a status that is not ok or a body that is no JSON; otherwise data.meals is
\* null, not there, or a list of recipes with distinct ids
Lists(n) == UNION {[1..k -> Meals] : k \in 0..n}

DistinctIds(items) ==
    \A i, j \in 1..Len(items) : items[i].idMeal = items[j].idMeal => i = j

SearchResponses ==
    {[rejected |-> TRUE, field |-> "array", meals |-> <<>>],
     [rejected |-> FALSE, field |-> "null", meals |-> <<>>],
     [rejected |-> FALSE, field |-> "undefined", meals |-> <<>>]}
    \cup {[rejected |-> FALSE, field |-> "array", meals |-> m] :
             m \in {l \in Lists(MaxResults) : DistinctIds(l)}}

\* searchMeals(searchTerm): [threw, value]; data.meals || []
searchMeals(response) ==
    IF response.rejected THEN [threw |-> TRUE, value |-> <<>>]
    ELSE [threw |-> FALSE, value |-> orEmpty(response.field, response.meals)]

\* meals.map(meal => meal.idMeal)
idsOf(meals) == [i \in 1..Len(meals) |-> meals[i].idMeal]

\* performSearch() up to its await.  The search term goes into the URL of the
\* request and into the texts of title and message only, so the suspended call
\* is kept without it.
performSearch(input) ==
    LET searchTerm == trim(input) IN
    /\ UNCHANGED <<cookbook, localStorage, searchResults>>
    /\ IF searchTerm = <<>>
       THEN /\ last' = [Ran("performSearch", "blank", NoMeal, "info", "none", FALSE,
                             FALSE) EXCEPT !.input = input]
            /\ UNCHANGED <<activeCategory, isLoading, elements, pending>>
       ELSE /\ Len(pending) < MaxPending
            /\ activeCategory' = null
            /\ isLoading' = TRUE
            /\ elements' = hideMessage(showLoading(elements))
            /\ pending' = Append(pending, Suspended("performSearch", "search", null, <<>>))
            /\ last' = [Ran("performSearch", "submitted", NoMeal, "none", "none",
                             FALSE, FALSE)
                           EXCEPT !.input = input, !.fetches = Fetch("search.php", <<>>)]

\* the pane after the catch block of performSearch
searchFailed(el) == showMessage(hideLoading(el), "Something went wrong")

\* performSearch() from its await on, for the i-th suspended call
performSearchResume(i, response) ==
    LET meals == searchMeals(response)
        rest == SubSeq(pending, 1, i - 1) \o SubSeq(pending, i + 1, Len(pending))
    IN
    /\ pending[i].op = "performSearch"
    /\ pending' = rest
    /\ isLoading' = FALSE
    /\ UNCHANGED <<cookbook, localStorage, activeCategory>>
    /\ IF meals.threw
       THEN /\ elements' = searchFailed(elements)
            /\ last' = Ran("performSearchResume", "rejected", NoMeal, "error", "none",
                           FALSE, TRUE)
            /\ UNCHANGED searchResults
       ELSE /\ searchResults' = meals.value
            /\ IF meals.value = <<>>
               THEN /\ elements' = showMessage(hideLoading(elements), "No recipes found")
                    /\ last' = [Ran("performSearchResume", "resolved", NoMeal, "none",
                                    "none", FALSE, FALSE)
                                   EXCEPT !.field = response.field]
               ELSE IF renderRecipeCardsThrows(cookbook, meals.value)
               THEN /\ elements' = searchFailed(
                                      renderRecipeCards(hideLoading(elements), cookbook,
                                                        meals.value))
                    /\ last' = [Ran("performSearchResume", "resolved", NoMeal, "error",
                                    "none", FALSE, FALSE)
                                   EXCEPT !.listed = idsOf(meals.value),
                                          !.field = response.field]
               ELSE /\ elements' = renderRecipeCards(hideLoading(elements), cookbook,
                                                     meals.value)
                    /\ last' = [Ran("performSearchResume", "resolved", NoMeal, "none",
                                    "none", FALSE, FALSE)
                                   EXCEPT !.listed = idsOf(meals.value),
                                          !.field = response.field]

(***************************************************************************)
(* Categories.  An entry of a filter response is kept as its idMeal, the   *)
(* one field selectCategory reads.                                         *)
(***************************************************************************)
\* ids of the recipes the remote source lists, in the order it lists them
RemoteIds ==
    <<"m1", "m2", "m3", "m4", "m5", "m6", "m7", "m8", "m9", "m10", "m11", "m12",
      "m13", "m14", "m15", "m16", "m17", "m18", "m19", "m20", "m21", "m22", "m23">>

\* recipes whose detail record has no category label
Unlabelled == {"m2", "m20"}

\* most look-ups of one category selection: meals.slice(0, 20)
DetailCap == 20

Min(a, b) == IF a < b THEN a ELSE b

\* slice that keeps the whole list
sliceAll(items, end) == items

\* Array.prototype.slice(0, end)
slice(items, end) == SubSeq(items, 1, Min(Len(items), end))

FilterSizes == {0, 1, 2, MaxFilter}

\* what the fetch of fetchMealsByCategory can settle with
FilterResponses ==
    {[rejected |-> TRUE, field |-> "array", meals |-> <<>>],
     [rejected |-> FALSE, field |-> "null", meals |-> <<>>],
     [rejected |-> FALSE, field |-> "undefined", meals |-> <<>>],
     [rejected |-> FALSE, field |-> "array", meals |-> <<"m2", "m1">>]}
    \cup {[rejected |-> FALSE, field |-> "array", meals |-> SubSeq(RemoteIds, 1, n)] :
             n \in FilterSizes}

\* fetchMealsByCategory(category): [threw, value]; data.meals || []
fetchMealsByCategory(response) ==
    IF response.rejected THEN [threw |-> TRUE, value |-> <<>>]
    ELSE [threw |-> FALSE, value |-> orEmpty(response.field, response.meals)]

\* what the look-ups of n ids can settle with: the positions of the rejected
\* ones and of the ones whose response has meals: null
LookupOutcomes(n) ==
    {[rejected |-> r, absent |-> a] :
        r \in {{}, {1}, {n}},
        a \in {{}, {1}, {2} \cap (1..n), 1..n, 2..n}}

\* getMealById(mealId): [threw, value]; data.meals ? data.meals[0] : null
getMealById(mealId, categoryName, rejected, absent) ==
    IF rejected THEN [threw |-> TRUE, value |-> JsonNullElem]
    ELSE [threw |-> FALSE,
          value |-> IF absent THEN JsonNullElem
                    ELSE Meal(mealId, IF mealId \in Unlabelled THEN null
                                      ELSE categoryName)]

\* Promise.all(mealsToFetch.map(meal => getMealById(meal.idMeal)))
PromiseAll(ids, categoryName, outcome) ==
    [threw |-> \E i \in 1..Len(ids) : i \in outcome.rejected,
     value |-> [i \in 1..Len(ids) |->
                   getMealById(ids[i], categoryName, FALSE, i \in outcome.absent).value]]

isMeal(meal) == meal.type # "null"

\* fullMeals.filter(meal => meal !== null) that keeps every element
filterNothing(fullMeals) == fullMeals

\* fullMeals.filter(meal => meal !== null)
filter(fullMeals) == SelectSeq(fullMeals, isMeal)

\* the forEach that leaves the records as they came
backfillNothing(validMeals, categoryName) == validMeals

\* validMeals.forEach(meal => { if (!meal.strCategory) ... })
backfill(validMeals, categoryName) ==
    [i \in 1..Len(validMeals) |->
        IF validMeals[i].strCategory = null
        THEN Meal(validMeals[i].idMeal, categoryName)
        ELSE validMeals[i]]

\* clearActiveCategory()
clearActiveCategory ==
    /\ activeCategory' = null
    /\ elements' = hideMessage([elements EXCEPT !.recipeGrid = <<>>,
                                               !.resultsTitleHidden = TRUE])

\* selectCategory(categoryName) up to its first await
selectCategory(categoryName) ==
    /\ UNCHANGED <<cookbook, localStorage, searchResults>>
    /\ IF activeCategory = categoryName
       THEN /\ clearActiveCategory
            /\ UNCHANGED <<isLoading, pending>>
            /\ last' = [Ran("selectCategory", "deselect", NoMeal, "none", "none",
                             FALSE, FALSE) EXCEPT !.categoryName = categoryName]
       ELSE /\ Len(pending) < MaxPending
            /\ activeCategory' = categoryName
            /\ isLoading' = TRUE
            /\ elements' = hideMessage(showLoading(elements))
            /\ pending' = Append(pending,
                                 Suspended("selectCategory", "filter", categoryName, <<>>))
            /\ last' = [Ran("selectCategory", "select", NoMeal, "none", "none",
                             FALSE, FALSE)
                           EXCEPT !.categoryName = categoryName,
                                  !.fetches = Fetch("filter.php", <<>>)]

\* the catch block of selectCategory
categoryFailed(op, categoryName) ==
    /\ isLoading' = FALSE
    /\ elements' = showMessage(hideLoading(elements), "Something went wrong")
    /\ UNCHANGED searchResults
    /\ last' = [Ran(op, "rejected", NoMeal, "error", "none", FALSE, TRUE)
                   EXCEPT !.categoryName = categoryName]

\* selectCategory from the await of fetchMealsByCategory to the await of
\* Promise.all, for the i-th suspended call
selectCategoryResume(i, response) ==
    LET categoryName == pending[i].categoryName
        meals == fetchMealsByCategory(response)
        mealsToFetch == slice(meals.value, DetailCap)
        rest == SubSeq(pending, 1, i - 1) \o SubSeq(pending, i + 1, Len(pending))
    IN
    /\ pending[i].op = "selectCategory" /\ pending[i].stage = "filter"
    /\ UNCHANGED <<cookbook, localStorage, activeCategory>>
    /\ IF meals.threw
       THEN /\ categoryFailed("selectCategoryResume", categoryName)
            /\ pending' = rest
       ELSE IF Len(meals.value) = 0
       THEN /\ isLoading' = FALSE
            /\ elements' = showMessage(hideLoading(elements), "No recipes found")
            /\ pending' = rest
            /\ UNCHANGED searchResults
            /\ last' = [Ran("selectCategoryResume", "empty", NoMeal, "none", "none",
                             FALSE, FALSE)
                           EXCEPT !.categoryName = categoryName,
                                  !.field = response.field]
       ELSE /\ pending' = [pending EXCEPT ![i] =
                              Suspended("selectCategory", "lookup", categoryName,
                                        mealsToFetch)]
            /\ UNCHANGED <<isLoading, elements, searchResults>>
            /\ last' = [Ran("selectCategoryResume", "listed", NoMeal, "none", "none",
                             FALSE, FALSE)
                           EXCEPT !.categoryName = categoryName,
                                  !.listed = meals.value,
                                  !.field = response.field,
                                  !.fetches = Fetch("lookup.php", mealsToFetch)]

\* selectCategory from the await of Promise.all on, for the i-th suspended call
selectCategoryJoin(i, outcome) ==
    LET categoryName == pending[i].categoryName
        mealsToFetch == pending[i].ids
        fullMeals == PromiseAll(mealsToFetch, categoryName, outcome)
        validMeals == backfill(filter(fullMeals.value), categoryName)
    IN
    /\ pending[i].op = "selectCategory" /\ pending[i].stage = "lookup"
    /\ pending' = SubSeq(pending, 1, i - 1) \o SubSeq(pending, i + 1, Len(pending))
    /\ UNCHANGED <<cookbook, localStorage, activeCategory>>
    /\ IF fullMeals.threw
       THEN categoryFailed("selectCategoryJoin", categoryName)
       ELSE /\ searchResults' = validMeals
            /\ isLoading' = FALSE
            /\ IF renderRecipeCardsThrows(cookbook, validMeals)
               THEN /\ elements' = showMessage(
                                      hideLoading(renderRecipeCards(
                                          hideLoading(elements), cookbook, validMeals)),
                                      "Something went wrong")
                    /\ last' = [Ran("selectCategoryJoin", "resolved", NoMeal, "error",
                                     "none", FALSE, FALSE)
                                   EXCEPT !.categoryName = categoryName,
                                          !.listed = mealsToFetch,
                                          !.absent = outcome.absent]
               ELSE /\ elements' = renderRecipeCards(hideLoading(elements), cookbook,
                                                     validMeals)
                    /\ last' = [Ran("selectCategoryJoin", "resolved", NoMeal, "none",
                                     "none", FALSE, FALSE)
                                   EXCEPT !.categoryName = categoryName,
                                          !.listed = mealsToFetch,
                                          !.absent = outcome.absent]

(***************************************************************************)
(* The list of categories, and the look-up of one recipe from its card.    *)
(* state.categories, the categories container and the modal are written by *)
(* these runs and read by no other, so they are kept in the record of the  *)
(* run: listed holds the names of the category cards rendered.             *)
(***************************************************************************)
CategoryLists == {<<>>, <<"Seafood">>, <<"Seafood", "Dessert">>}

\* what the fetch of categories.php can settle with; data.categories is null,
\* not there, or a list of categories
CategoriesResponses ==
    {[rejected |-> TRUE, field |-> "array", meals |-> <<>>],
     [rejected |-> FALSE, field |-> "null", meals |-> <<>>],
     [rejected |-> FALSE, field |-> "undefined", meals |-> <<>>]}
    \cup {[rejected |-> FALSE, field |-> "array", meals |-> l] : l \in CategoryLists}

\* fetchCategories(): [threw, value]; data.categories || []
fetchCategories(response) ==
    IF response.rejected THEN [threw |-> TRUE, value |-> <<>>]
    ELSE [threw |-> FALSE, value |-> orEmpty(response.field, response.meals)]

\* loadCategories(), called by init(): its run when the fetch settled
loadCategories(response) ==
    LET categories == fetchCategories(response) IN
    /\ last.op = "init"
    /\ UNCHANGED <<cookbook, searchResults, activeCategory, isLoading, elements,
                   pending, localStorage>>
    /\ last' = IF categories.threw
               THEN Ran("loadCategories", "rejected", NoMeal, "none", "none", FALSE, TRUE)
               ELSE [Ran("loadCategories", "resolved", NoMeal, "none", "none", FALSE,
                         FALSE)
                        EXCEPT !.listed = categories.value, !.field = response.field]

\* how the look-up of one recipe settles: rejected, or data.meals null, not
\* there, or a list with the record
LookupResponses ==
    {[rejected |-> TRUE, field |-> "array"], [rejected |-> FALSE, field |-> "null"],
     [rejected |-> FALSE, field |-> "undefined"], [rejected |-> FALSE, field |-> "array"]}

\* state.searchResults.find(m => m.idMeal === mealId): the index, 0 for undefined
find(results, mealId) ==
    IF \E i \in 1..Len(results) : results[i].idMeal = mealId
    THEN CHOOSE i \in 1..Len(results) :
            /\ results[i].idMeal = mealId
            /\ \A j \in 1..(i - 1) : results[j].idMeal # mealId
    ELSE 0

\* handleCardClick(event) for the View Recipe button of the k-th card.  Between
\* the await of getMealById and renderRecipeModal nothing of the state is read
\* but the cookbook, which the modal mirrors, so the await is not split.
handleCardClickView(k, response) ==
    LET mealId == elements.recipeGrid[k].mealId
        at == find(searchResults, mealId)
        fetched == getMealById(mealId, null, response.rejected,
                               response.field # "array")
        meal == IF at # 0 THEN searchResults[at] ELSE fetched.value
        sent == IF at # 0 THEN NoFetch ELSE Fetch("lookup.php", <<mealId>>)
    IN
    /\ k \in 1..Len(elements.recipeGrid)
    /\ UNCHANGED <<cookbook, searchResults, activeCategory, isLoading, elements,
                   pending, localStorage>>
    /\ last' =
          IF at = 0 /\ fetched.threw
          THEN [Ran("handleCardClick", "rejected", NoMeal, "error", "none", FALSE, TRUE)
                   EXCEPT !.fetches = sent]
          ELSE IF ~isMeal(meal)
          THEN [Ran("handleCardClick", "absent", NoMeal, "none", "none", FALSE, FALSE)
                   EXCEPT !.fetches = sent, !.field = response.field]
          ELSE [Ran("handleCardClick", "modal", meal, "none", "none",
                    isInCookbook(cookbook, meal.idMeal).threw, FALSE)
                   EXCEPT !.fetches = sent,
                          !.field = IF at = 0 THEN response.field ELSE "none"]

\* handleCardClick(event) for the Save button of the k-th card
handleCardClickSave(k, ok) ==
    LET mealId == elements.recipeGrid[k].mealId
        at == find(searchResults, mealId)
    IN
    /\ k \in 1..Len(elements.recipeGrid)
    /\ IF at # 0 THEN addToCookbook(searchResults[at], ok)
       ELSE /\ UNCHANGED <<cookbook, searchResults, activeCategory, isLoading,
                           elements, pending, localStorage>>
            /\ last' = Ran("handleCardClick", "notfound", NoMeal, "none", "none",
                           FALSE, FALSE)

(***************************************************************************)
(* The lecture version of the page (src/unnamed/part_000), with its own    *)
(* appState.  Its runs write appState.categories and the categories        *)
(* container only, which are kept in the record of the run.                *)
(***************************************************************************)
\* fetchMealsByCategory(category): [threw, value]; the catch logs and returns
\* undefined, which is kept as the kind of the value
fetchMealsByCategory_part000(response) ==
    IF response.rejected THEN [threw |-> FALSE, kind |-> "undefined", value |-> <<>>]
    ELSE [threw |-> FALSE, kind |-> "array",
          value |-> orEmpty(response.field, response.meals)]

\* a call of fetchMealsByCategory; the script defines it and calls it nowhere
callFetchMealsByCategory_part000(response) ==
    LET meals == fetchMealsByCategory_part000(response) IN
    /\ last.op = "init"
    /\ UNCHANGED <<cookbook, searchResults, activeCategory, isLoading, elements,
                   pending, localStorage>>
    /\ last' = [Ran("fetchMealsByCategory_part000",
                    IF meals.kind = "array" THEN "resolved" ELSE "rejected",
                    NoMeal, "none", "none", meals.threw, response.rejected)
                   EXCEPT !.listed = meals.value, !.field = response.field]

\* categories.forEach of renderCategories ends in a TypeError
renderCategoriesThrows_part000(field) == field # "array"

\* fetchCategories(), called by loadCategories() from initApp: the promise
\* chain when the fetch settled.  There is no catch: a rejected fetch and an
\* error raised in a then callback end in an unhandled rejection.
fetchCategories_part000(response) ==
    /\ last.op = "init"
    /\ UNCHANGED <<cookbook, searchResults, activeCategory, isLoading, elements,
                   pending, localStorage>>
    /\ last' =
          IF response.rejected
          THEN Ran("fetchCategories_part000", "rejected", NoMeal, "none", "none", TRUE,
                   FALSE)
          ELSE [Ran("fetchCategories_part000", "resolved", NoMeal, "none", "none",
                    renderCategoriesThrows_part000(response.field), FALSE)
                   EXCEPT !.listed = response.meals, !.field = response.field]

(***************************************************************************)
(* Ingredients.  The fields strIngredient<i> and strMeasure<i> of a record *)
(* are the i-th element of a sequence of slots; a field is missing         *)
(* (undefined), null or a text.                                            *)
(***************************************************************************)
\* slots that parseIngredients reads: for (let i = 1; i <= 20; i++)
NumSlots == 20

Missing == [type |-> "undefined", text |-> <<>>]
Null == [type |-> "null", text |-> <<>>]
Text(t) == [type |-> "string", text |-> t]

\* values a field holds in the records of the remote source
IngredientValues ==
    {Null, Text(<<>>), Text(<<" ">>), Text(<<"c">>), Text(<<" ", "c", " ">>)}
MeasureValues == {Missing, Null, Text(<<" ">>), Text(<<"c", " ">>)}

UnusedSlot == [ingredient |-> Missing, measure |-> Missing]

\* the slots that hold a value in the records drawn: the first ones, the last
\* one that is read and the one after it
SlotChoices == {1, 2, NumSlots, NumSlots + 1}

\* records with values in MaxFilled slots at most
RawRecords ==
    UNION {UNION {[used -> [ingredient : IngredientValues, measure : MeasureValues]] :
                     used \in {u \in SUBSET SlotChoices : Cardinality(u) = k}} :
              k \in 0..MaxFilled}

\* the slots of a record in which some slots hold a value
Slots(filled) ==
    [i \in 1..(NumSlots + 1) |-> IF i \in DOMAIN filled THEN filled[i] ELSE UnusedSlot]

\* a value used as a condition
truthy(v) == v.type = "string" /\ v.text # <<>>

\* the test of a slot without the trim
isUsedUntrimmed(v) == truthy(v)

\* ingredient && ingredient.trim()
isUsed(v) == truthy(v) /\ trim(v.text) # <<>>

\* parseIngredients(meal), the iterations i..NumSlots of its loop
RECURSIVE parseFrom(_, _)
parseFrom(slots, i) ==
    IF i > NumSlots THEN <<>>
    ELSE (IF isUsed(slots[i].ingredient)
          THEN <<[ingredient |-> trim(slots[i].ingredient.text),
                  measure |-> IF truthy(slots[i].measure)
                              THEN trim(slots[i].measure.text) ELSE <<>>]>>
          ELSE <<>>)
         \o parseFrom(slots, i + 1)

\* parseIngredients(meal): the list returned; the record is only read
parseIngredients ==
    /\ last.op = "getMealById"
    /\ last' = [last EXCEPT !.op = "parseIngredients",
                            !.ingredients = parseFrom(last.slots, 1)]
    /\ UNCHANGED <<cookbook, searchResults, activeCategory, isLoading, elements,
                   pending, localStorage>>

(***************************************************************************)
(* Start of the page: init() on a fresh state, with whatever the durable   *)
(* store holds.                                                            *)
(***************************************************************************)
Elems == Meals \cup {JsonNullElem, JsonNumberElem}

StoredLists == UNION {[1..k -> Elems] : k \in 0..MaxStored}

\* texts the store can hold that are no serialized list
OtherTexts ==
    {<<>>, <<"oops">>, <<"[">>, <<"[", "{", "idMeal", "m1", "]">>,
     <<"null">>, <<"5">>, <<"\"\"">>, <<"\"abc\"">>, <<"{", "}">>,
     <<"{", "length", "0", "}">>}

InitialStorage ==
    {NoItem} \cup {Item(t) : t \in OtherTexts}
    \cup {Item(JSON_stringify(Arr(l))) : l \in StoredLists}

init(storage) ==
    /\ localStorage = storage
    /\ cookbook = loadCookbookFromStorage(storage)
    /\ searchResults = <<>>
    /\ activeCategory = null
    /\ isLoading = FALSE
    /\ elements = InitialElements
    /\ pending = <<>>
    /\ last = Ran("init", "load", NoMeal, "none", "none", FALSE, loadCaught(storage))

\* a reload of the page: the script state is rebuilt, the store is kept
Reload ==
    /\ localStorage' = localStorage
    /\ cookbook' = loadCookbookFromStorage(localStorage)
    /\ searchResults' = <<>>
    /\ activeCategory' = null
    /\ isLoading' = FALSE
    /\ elements' = InitialElements
    /\ pending' = <<>>
    /\ last' = Ran("init", "load", NoMeal, "none", "none", FALSE, loadCaught(localStorage))

Init == \E storage \in InitialStorage : init(storage)

\* the cookbook store on its own: the handlers of the sidebar and of the Save
\* buttons, and reloads of the page
Next ==
    \/ \E meal \in Meals, ok \in BOOLEAN : addToCookbook(meal, ok)
    \/ \E mealId \in MealIds, ok \in BOOLEAN : removeFromCookbook(mealId, ok)
    \/ \E confirmed \in BOOLEAN, ok \in BOOLEAN : clearCookbook(confirmed, ok)
    \/ Reload

Spec == Init /\ [][Next]_vars

\* the whole page: the cookbook store and the search box
Inputs == UNION {[1..k -> Chars] : k \in 0..MaxInput}

PaneStorage ==
    {NoItem, Item(<<"\"\"">>), Item(JSON_stringify(Arr(<<Meal("m1", "Seafood")>>)))}

InitPane == \E storage \in PaneStorage : init(storage)

NextPane ==
    \/ Next
    \/ \E input \in Inputs : performSearch(input)
    \/ \E i \in 1..Len(pending), response \in SearchResponses :
          performSearchResume(i, response)

\* the cookbook store with the Export button
NextExport ==
    \/ Next
    \/ \E picker \in BOOLEAN, choice \in PickerOutcomes, written \in BOOLEAN :
          exportCookbook(picker, choice, written)

SpecExport == Init /\ [][NextExport]_vars

SpecPane == InitPane /\ [][NextPane]_vars

\* searches and category selections that overlap, with responses of one recipe
\* at most
OneRecipeSearches ==
    {r \in SearchResponses : Len(r.meals) <= 1}

OneRecipeFilters ==
    {r \in FilterResponses : Len(r.meals) <= 1}

InitOverlap == init(NoItem)

NextOverlap ==
    \/ \E input \in Inputs : performSearch(input)
    \/ \E i \in 1..Len(pending), response \in OneRecipeSearches :
          performSearchResume(i, response)
    \/ \E categoryName \in Categories : selectCategory(categoryName)
    \/ \E i \in 1..Len(pending), response \in OneRecipeFilters :
          selectCategoryResume(i, response)
    \/ \E i \in 1..Len(pending) :
          \E outcome \in LookupOutcomes(Len(pending[i].ids)) :
             selectCategoryJoin(i, outcome)

SpecOverlap == InitOverlap /\ [][NextOverlap]_vars

\* every fetch that was issued settles: the call suspended at it is resumed
SearchSettled ==
    \E i \in 1..Len(pending), response \in OneRecipeSearches :
        performSearchResume(i, response)

FilterSettled ==
    \E i \in 1..Len(pending), response \in OneRecipeFilters :
        selectCategoryResume(i, response)

LookupsSettled ==
    \E i \in 1..Len(pending) :
        \E outcome \in LookupOutcomes(Len(pending[i].ids)) :
           selectCategoryJoin(i, outcome)

SpecOverlapFair ==
    /\ SpecOverlap
    /\ WF_vars(SearchSettled) /\ WF_vars(FilterSettled) /\ WF_vars(LookupsSettled)

\* the cards and the cookbook: searches for one term and selections of one
\* category that overlap, the Save buttons of the cards and the cookbook with
\* its sidebar, from a store that is empty, malformed, or holds one recipe twice
PageStorage ==
    {NoItem, Item(<<"\"\"">>),
     Item(JSON_stringify(Arr(<<Meal("m1", "Seafood"), Meal("m1", "Seafood")>>)))}

InitPage == \E storage \in PageStorage : init(storage)

NextPage ==
    \/ performSearch(<<"c">>)
    \/ SearchSettled
    \/ selectCategory("Seafood")
    \/ FilterSettled
    \/ LookupsSettled
    \/ Next
    \/ \E k \in 1..Len(elements.recipeGrid), ok \in BOOLEAN : handleCardClickSave(k, ok)

SpecPage == InitPage /\ [][NextPage]_vars

\* the two halves of the page side by side: the search box, the category
\* buttons and the Export button on one side, the cookbook on the other
FrameChoices ==
    {[kind |-> "AbortError", name |-> <<>>],
     [kind |-> "handle", name |-> <<"a", ".", "j", "s", "o", "n">>]}

NextFrames ==
    \/ performSearch(<<"c">>)
    \/ SearchSettled
    \/ selectCategory("Seafood")
    \/ FilterSettled
    \/ LookupsSettled
    \/ \E picker \in BOOLEAN, choice \in FrameChoices, written \in BOOLEAN :
          exportCookbook(picker, choice, written)
    \/ \E ok \in BOOLEAN : addToCookbook(Meal("m1", "Seafood"), ok)
    \/ \E ok \in BOOLEAN : removeFromCookbook("m1", ok)
    \/ \E confirmed \in BOOLEAN, ok \in BOOLEAN : clearCookbook(confirmed, ok)

SpecFrames == InitOverlap /\ [][NextFrames]_vars

\* the four operations of the remote source, in the page and in its lecture
\* version
NextRemote ==
    \/ NextOverlap
    \/ Reload
    \/ \E response \in CategoriesResponses : loadCategories(response)
    \/ \E k \in 1..Len(elements.recipeGrid), response \in LookupResponses :
          handleCardClickView(k, response)
    \/ \E response \in CategoriesResponses : fetchCategories_part000(response)
    \/ \E response \in OneRecipeFilters : callFetchMealsByCategory_part000(response)

SpecRemote == InitOverlap /\ [][NextRemote]_vars

\* the recipe details: a record of the remote source and its list of ingredients
\* getMealById(mealId) has resolved with a record, which renderRecipeModal
\* hands to parseIngredients
InitNormalizer ==
    \E filled \in RawRecords :
        /\ localStorage = NoItem
        /\ cookbook = loadCookbookFromStorage(NoItem)
        /\ searchResults = <<>>
        /\ activeCategory = null
        /\ isLoading = FALSE
        /\ elements = InitialElements
        /\ pending = <<>>
        /\ last = [Ran("getMealById", "fetched", NoMeal, "none", "none", FALSE, FALSE)
                      EXCEPT !.slots = Slots(filled)]

NextNormalizer == parseIngredients

SpecNormalizer == InitNormalizer /\ [][NextNormalizer]_vars

\* the category cards: selections, and the responses that settle them
NextCategory ==
    \/ \E categoryName \in Categories : selectCategory(categoryName)
    \/ \E i \in 1..Len(pending), response \in FilterResponses :
          selectCategoryResume(i, response)
    \/ \E i \in 1..Len(pending) :
          \E outcome \in LookupOutcomes(Len(pending[i].ids)) :
             selectCategoryJoin(i, outcome)

SpecCategory == InitPane /\ [][NextCategory]_vars

(***************************************************************************)
(* Properties of the cookbook store.                                       *)
(***************************************************************************)
\* the recipe id is the id of an entry of the cookbook
HasId(v, mealId) ==
    /\ v.type = "array"
    /\ \E i \in 1..Len(v.items) :
          v.items[i].type = "object" /\ v.items[i].idMeal = mealId

\* index of the first entry with the id
FirstWithId(v, mealId) ==
    CHOOSE i \in 1..Len(v.items) :
        /\ v.items[i].idMeal = mealId
        /\ \A j \in 1..(i - 1) : v.items[j].idMeal # mealId

Without(items, k) == SubSeq(items, 1, k - 1) \o SubSeq(items, k + 1, Len(items))

\* the store holds the serialization of the collection
Holds(storage, v) == storage = Item(JSON_stringify(v))

\* C1: in every reachable state no two cookbook entries share the same recipe
\* id; the states right after the load at startup included.
C1_UniqueIds ==
    cookbook.type = "array" =>
        \A i, j \in 1..Len(cookbook.items) :
            (/\ cookbook.items[i].type = "object"
             /\ cookbook.items[j].type = "object"
             /\ cookbook.items[i].idMeal = cookbook.items[j].idMeal) => i = j

\* C2: add of a recipe whose id is already in the cookbook leaves the cookbook
\* as it is, writes nothing to the store and raises an info notice, not a
\* success notice.
C2_DuplicateAddIsNoOp ==
    [][(last'.op = "addToCookbook" /\ HasId(cookbook, last'.id)) =>
          /\ cookbook' = cookbook
          /\ localStorage' = localStorage
          /\ last'.setItem = "none"
          /\ last'.toast = "info"]_vars

C2_Witness ==
    /\ last.op = "addToCookbook" /\ last.toast = "info"
    /\ IsEntryList(cookbook) /\ cookbook.length = 2
    /\ HasId(cookbook, last.id)

\* C3: add of a recipe whose id is not in the cookbook appends it as the last
\* entry, leaves the earlier entries and their order as they were, and writes
\* the new collection to the store.
C3_AddAppends ==
    [][(last'.op = "addToCookbook" /\ ~HasId(cookbook, last'.id)) =>
          /\ cookbook'.type = "array"
          /\ cookbook'.items = Append(cookbook.items, last'.meal)
          /\ last'.setItem # "none"
          /\ last'.setItem = "ok" => Holds(localStorage', cookbook')]_vars

\* C4: remove of a recipe id that is not in the cookbook changes neither the
\* cookbook nor the store, writes nothing and raises no notice.
C4_RemoveAbsentIsNoOp ==
    [][(last'.op = "removeFromCookbook" /\ ~HasId(cookbook, last'.id)) =>
          /\ cookbook' = cookbook
          /\ localStorage' = localStorage
          /\ last'.setItem = "none"
          /\ last'.toast = "none"]_vars

C4_Witness ==
    /\ last.op = "removeFromCookbook" /\ last.toast = "none" /\ ~last.threw
    /\ IsEntryList(cookbook) /\ cookbook.length >= 1
    /\ ~HasId(cookbook, last.id)

\* C5: remove of a recipe id that is in the cookbook removes exactly the first
\* entry with that id, keeps the other entries in their order and writes the
\* collection to the store; afterwards the id is not in the cookbook.
C5_RemoveFirst ==
    [][(last'.op = "removeFromCookbook" /\ HasId(cookbook, last'.id)) =>
          /\ cookbook'.type = "array"
          /\ cookbook'.items =
                Without(cookbook.items, FirstWithId(cookbook, last'.id))
          /\ last'.setItem # "none"
          /\ last'.setItem = "ok" => Holds(localStorage', cookbook')
          /\ ~HasId(cookbook', last'.id)]_vars

\* C6: clear empties the cookbook and writes the empty collection when the
\* user confirms, and only then; when the user declines, or the cookbook is
\* empty already, cookbook and store stay as they are.
C6_ClearOnlyOnConfirm ==
    [][last'.op = "clearCookbook" =>
          IF last'.id = "confirmed"
          THEN /\ cookbook' = Arr(<<>>)
               /\ last'.setItem # "none"
               /\ last'.setItem = "ok" => Holds(localStorage', Arr(<<>>))
          ELSE /\ cookbook' = cookbook
               /\ localStorage' = localStorage
               /\ last'.setItem = "none"]_vars

C6_Witness ==
    /\ last.op = "clearCookbook" /\ last.id = "declined"
    /\ IsEntryList(cookbook) /\ cookbook.length >= 1

\* the store holds a well-formed serialized list of entries
WellFormedStore(storage) ==
    /\ storage.present
    /\ JSON_parse(storage.text).ok
    /\ IsEntryList(JSON_parse(storage.text).value)

\* C7: after the load at startup the cookbook is a collection: the stored
\* entries when the store holds a well-formed list of entries, the empty
\* collection when the stored value is missing or is anything else; and no
\* error escapes load.
C7_LoadYieldsCollection ==
    last.op = "init" =>
        /\ ~last.threw
        /\ cookbook.type = "array"
        /\ IF WellFormedStore(localStorage)
           THEN cookbook = JSON_parse(localStorage.text).value
           ELSE cookbook = Arr(<<>>)

\* C8: after an add, remove or clear whose write succeeded the store holds
\* the whole collection in its order, and a load of the store gives back the
\* cookbook as it is.
C8_StoreMirrorsCookbook ==
    [][(/\ last'.op \in {"addToCookbook", "removeFromCookbook", "clearCookbook"}
        /\ last'.setItem = "ok") =>
          /\ Holds(localStorage', cookbook')
          /\ loadCookbookFromStorage(localStorage') = cookbook']_vars

C8_Witness ==
    /\ last.op = "removeFromCookbook" /\ last.setItem = "ok"
    /\ IsEntryList(cookbook) /\ cookbook.length >= 2
    /\ Holds(localStorage, cookbook)

\* C9: when the write of an add, remove or clear fails, the change of the
\* cookbook is kept, the store keeps what it held, the failure is logged and
\* no error notice is raised; a reload then gives the cookbook the store
\* yields, not the one held in memory.
C9_FailedWriteKeepsMutation ==
    [][/\ last'.setItem = "failed" =>
             /\ localStorage' = localStorage
             /\ last'.logged /\ ~last'.threw /\ last'.toast # "error"
             /\ last'.op = "addToCookbook" =>
                   cookbook'.items = Append(cookbook.items, last'.meal)
             /\ last'.op = "removeFromCookbook" =>
                   cookbook'.items =
                      Without(cookbook.items, FirstWithId(cookbook, last'.id))
             /\ last'.op = "clearCookbook" =>
                   cookbook' = Arr(<<>>) /\ cookbook # Arr(<<>>)
       /\ last'.op = "init" =>
             /\ localStorage' = localStorage
             /\ cookbook' = loadCookbookFromStorage(localStorage)]_vars

\* memory and store differ after a failed write
C9_Witness ==
    /\ last.setItem = "failed"
    /\ IsEntryList(cookbook) /\ cookbook.length >= 1
    /\ ~Holds(localStorage, cookbook)
    /\ loadCookbookFromStorage(localStorage) # cookbook

(***************************************************************************)
(* Properties of the results pane.                                         *)
(***************************************************************************)
\* the state of the results pane as the document shows it; "Mixed" when it
\* shows what belongs to more than one state
Pane(el) ==
    IF /\ ~el.loadingHidden /\ el.messageHidden /\ el.resultsTitleHidden
       /\ el.recipeGrid = <<>>
    THEN "Loading"
    ELSE IF /\ el.loadingHidden /\ el.messageHidden /\ ~el.resultsTitleHidden
            /\ el.recipeGrid # <<>>
    THEN "ResultsShown"
    ELSE IF /\ el.loadingHidden /\ ~el.messageHidden /\ el.resultsTitleHidden
            /\ el.recipeGrid = <<>>
    THEN (IF el.messageTitle = "No recipes found" THEN "Empty"
          ELSE IF el.messageTitle = "Something went wrong" THEN "Error"
          ELSE "Mixed")
    ELSE IF /\ el.loadingHidden /\ el.messageHidden /\ el.resultsTitleHidden
            /\ el.recipeGrid = <<>>
    THEN "Idle"
    ELSE "Mixed"

\* what the claim says of the run that resumes a search when its fetch settles
SearchSettles ==
    /\ Pane(elements) = "Loading"
    /\ IF last'.id = "rejected"
       THEN Pane(elements') = "Error" /\ last'.toast = "error"
       ELSE IF searchResults' = <<>>
       THEN Pane(elements') = "Empty"
       ELSE Pane(elements') = "ResultsShown"

\* C10: the submission of a search term that is not blank moves the pane to
\* Loading and sets the active category to none, from any state; when the
\* fetch of that search settles the pane moves from Loading to ResultsShown
\* for a list that is not empty, to Empty for an empty list, and to Error with
\* an error notice when the fetch failed.
C10_SearchTransitions ==
    [][/\ (last'.op = "performSearch" /\ last'.id = "submitted") =>
             Pane(elements') = "Loading" /\ activeCategory' = null
       /\ last'.op = "performSearchResume" => SearchSettles]_vars

\* C10 for the searches that settle while the cookbook is a list of entries:
\* what is left of the claim when the states that load can leave behind from a
\* malformed store are set aside
C10_SearchTransitionsOfEntryList ==
    [][(last'.op = "performSearchResume" /\ IsEntryList(cookbook)) =>
          SearchSettles]_vars

\* C10 for the searches that are the only ones in flight when they settle
C10_SingleSearchOfEntryList ==
    [][(/\ last'.op = "performSearchResume" /\ IsEntryList(cookbook)
        /\ Len(pending) = 1 /\ Pane(elements) = "Loading") =>
          SearchSettles]_vars

\* the text has no character other than white space
Blank(t) == \A i \in 1..Len(t) : t[i] = " "

\* C11: the submission of a search term that is blank after trimming changes
\* nothing of the application state (search results, active category, loading
\* flag, results pane), sends no request and raises an info notice only.
C11_BlankSearchChangesNothing ==
    [][(last'.op = "performSearch" /\ Blank(last'.input)) =>
          /\ UNCHANGED <<searchResults, activeCategory, isLoading, elements,
                         pending, cookbook, localStorage>>
          /\ last'.fetches = NoFetch
          /\ last'.toast = "info"]_vars

\* a blank submission while a search is in flight and the pane is loading
C11_Witness ==
    /\ last.op = "performSearch" /\ last.input = <<" ", " ">>
    /\ last.toast = "info"
    /\ pending # <<>> /\ isLoading

(***************************************************************************)
(* Properties of the category flow.                                        *)
(***************************************************************************)
\* C12: a click on the card of the category that is active, in any state where
\* one is active (also while the request of that category is loading), is a
\* deselect: the active category becomes none, the pane is Idle (no cards, no
\* title, no message, no loading indicator) and the click sends no filter and
\* no look-up request.
C12_DeselectReachesIdle ==
    [][(last'.op = "selectCategory" /\ last'.categoryName = activeCategory) =>
          /\ activeCategory' = null
          /\ Pane(elements') = "Idle"
          /\ last'.fetches = NoFetch]_vars

\* C12 for the clicks made when no request is in flight
C12_DeselectWhenSettled ==
    [][(/\ last'.op = "selectCategory" /\ last'.categoryName = activeCategory
        /\ pending = <<>>) =>
          /\ activeCategory' = null
          /\ Pane(elements') = "Idle" /\ ~isLoading'
          /\ last'.fetches = NoFetch]_vars

\* the part of C12 that holds in every state: no active category, no cards, no
\* title, no message, no request
C12_DeselectClearsResults ==
    [][(last'.op = "selectCategory" /\ last'.categoryName = activeCategory) =>
          /\ activeCategory' = null
          /\ elements'.recipeGrid = <<>> /\ elements'.resultsTitleHidden
          /\ elements'.messageHidden
          /\ last'.fetches = NoFetch /\ pending' = pending]_vars

\* the first k elements of a list, all of them when it has fewer
FirstOf(items, k) == [i \in 1..(IF Len(items) < k THEN Len(items) ELSE k) |-> items[i]]

\* the look-ups sent when the filter request of a selection returned a list of
\* n entries: min(n, 20) of them, for the first min(n, 20) entries, none for n = 0
CapOnLookups ==
    /\ last'.id = "listed" =>
          /\ last'.fetches.url = "lookup.php"
          /\ last'.fetches.ids = FirstOf(last'.listed, 20)
    /\ last'.id = "empty" => last'.fetches = NoFetch

\* C13: when the filter request of a category selection returns n entries,
\* exactly min(n, 20) look-ups are sent, for the first min(n, 20) entries of the
\* list, and at most 20 cards are rendered; when n = 0 no look-up is sent and
\* the pane goes to Empty.
C13_CapAndEmpty ==
    [][/\ last'.op = "selectCategoryResume" =>
             /\ CapOnLookups
             /\ last'.id = "empty" => Pane(elements') = "Empty"
       /\ Len(elements'.recipeGrid) <= 20]_vars

\* the part of C13 that holds in every state: the look-ups sent and the number
\* of cards
C13_Cap ==
    [][/\ last'.op = "selectCategoryResume" => CapOnLookups
       /\ Len(elements'.recipeGrid) <= 20]_vars

\* C13 for the filter responses that settle while the pane is Loading
C13_EmptyFromLoading ==
    [][(/\ last'.op = "selectCategoryResume" /\ last'.id = "empty"
        /\ Pane(elements) = "Loading") => Pane(elements') = "Empty"]_vars

\* a filter response of more than 20 entries was capped
C13_CapWitness ==
    /\ last.op = "selectCategoryResume" /\ Len(last.listed) > 20
    /\ Len(last.fetches.ids) = 20

\* the elements of a list at the positions 1..k that are not in the set
RECURSIVE KeptUpTo(_, _, _)
KeptUpTo(items, dropped, k) ==
    IF k = 0 THEN <<>>
    ELSE KeptUpTo(items, dropped, k - 1)
            \o (IF k \in dropped THEN <<>> ELSE <<items[k]>>)

\* the cards show the recipes of the look-ups that did not resolve to absent,
\* in the order of the filter list, each with the category as its label
ShowsThePresent ==
    LET ids == KeptUpTo(last'.listed, last'.absent, Len(last'.listed)) IN
    /\ Len(elements'.recipeGrid) = Len(ids)
    /\ \A i \in 1..Len(ids) :
          /\ elements'.recipeGrid[i].mealId = ids[i]
          /\ elements'.recipeGrid[i].label = last'.categoryName

\* C14: in the category flow with a filter list that is not empty and no
\* rejected fetch, the pane moves from Loading to ResultsShown and shows the
\* detail records that did not resolve to absent, no others, in the order of
\* the filter list, each with a category label (the selected category where
\* the record had none), however many look-ups resolved to absent; an absent
\* look-up never sends the pane to Error.
C14_ShowsPresentRecords ==
    [][(last'.op = "selectCategoryJoin" /\ last'.id = "resolved") =>
          /\ Pane(elements) = "Loading"
          /\ Pane(elements') = "ResultsShown"
          /\ ShowsThePresent
          /\ last'.toast # "error"]_vars

\* C14 for the look-ups that settle from Loading, with one at least that is
\* not absent, while the cookbook is a list of entries
C14_ShowsPresentFromLoading ==
    [][(/\ last'.op = "selectCategoryJoin" /\ last'.id = "resolved"
        /\ Pane(elements) = "Loading" /\ IsEntryList(cookbook)
        /\ last'.absent # 1..Len(last'.listed)) =>
          /\ Pane(elements') = "ResultsShown"
          /\ ShowsThePresent
          /\ last'.toast # "error"]_vars

\* every look-up of a selection resolved to absent: the pane is left blank,
\* with no cards, no title and no message
C14_AllAbsent ==
    [][(/\ last'.op = "selectCategoryJoin" /\ last'.id = "resolved"
        /\ Pane(elements) = "Loading"
        /\ last'.absent = 1..Len(last'.listed)) =>
          Pane(elements') = "Idle" /\ searchResults' = <<>>]_vars

\* some, not all, of 20 look-ups resolved to absent and the rest is shown
C14_Witness ==
    /\ last.op = "selectCategoryJoin" /\ last.id = "resolved"
    /\ Len(last.listed) = 20 /\ last.absent = {1}
    /\ Len(elements.recipeGrid) = 19 /\ Pane(elements) = "ResultsShown"

\* a step of the category flow in which the filter fetch or a look-up was
\* rejected
CategoryRejected ==
    /\ last'.op \in {"selectCategoryResume", "selectCategoryJoin"}
    /\ last'.id = "rejected"

\* C15: in the category flow, when the filter fetch or one of the parallel
\* look-ups is rejected the pane goes to Error with an error notice, nothing is
\* tried again, and no record of the batch is displayed or stored in the search
\* results.
C15_RejectionGivesError ==
    [][CategoryRejected =>
          /\ Pane(elements') = "Error" /\ ~isLoading'
          /\ last'.toast = "error"
          /\ last'.fetches = NoFetch /\ Len(pending') = Len(pending) - 1
          /\ UNCHANGED searchResults]_vars

\* the part of C15 that holds in every state: the message and the notice of
\* the failure, no retry, and cards and search results left as they were
C15_NoPartialResults ==
    [][CategoryRejected =>
          /\ ~elements'.messageHidden
          /\ elements'.messageTitle = "Something went wrong"
          /\ elements'.loadingHidden /\ ~isLoading'
          /\ last'.toast = "error"
          /\ last'.fetches = NoFetch /\ Len(pending') = Len(pending) - 1
          /\ elements'.recipeGrid = elements.recipeGrid
          /\ UNCHANGED searchResults]_vars

\* C15 for the rejections that arrive while the pane is Loading
C15_ErrorFromLoading ==
    [][(CategoryRejected /\ Pane(elements) = "Loading") =>
          Pane(elements') = "Error"]_vars

(***************************************************************************)
(* Properties of the export.                                               *)
(***************************************************************************)
\* C16: the export of an empty cookbook is refused at once with an error
\* notice: no save dialog is shown, no file is written or downloaded, and
\* cookbook and store are unchanged.
C16_EmptyExportRefused ==
    [][(last'.op \in {"exportCookbook", "fallbackExport"} /\ cookbook = Arr(<<>>)) =>
          /\ last'.toast = "error"
          /\ ~last'.file.dialog
          /\ last'.file.via = "none" /\ last'.file.content = <<>>
          /\ UNCHANGED <<cookbook, localStorage>>]_vars

\* an export of a cookbook emptied by the user, in a browser that has the save
\* dialog
C16_Witness ==
    /\ last.op = "exportCookbook" /\ last.file.picker
    /\ cookbook = Arr(<<>>) /\ localStorage = Item(<<"[", "]">>)
    /\ last.toast = "error"

\* the last five characters of the name are .json
EndsInJson(name) ==
    LET n == Len(name) IN
    /\ n >= 5
    /\ name[n - 4] = "." /\ name[n - 3] = "j" /\ name[n - 2] = "s"
    /\ name[n - 1] = "o" /\ name[n] = "n"

\* number of the tokens of a document that are the given one
Count(doc, tok) == Cardinality({i \in 1..Len(doc) : doc[i] = tok})

\* the document is the JSON encoding of a list of n recipes
IsJsonOf(doc, n) ==
    /\ doc # <<>> /\ Head(doc) = "[" /\ doc[Len(doc)] = "]"
    /\ Count(doc, "{") = n /\ Count(doc, "ingredients") = n

\* the document is the text encoding of a list of n recipes
IsTextOf(doc, n) ==
    /\ doc # <<>> /\ Head(doc) = "MY RECIPE COOKBOOK"
    /\ Count(doc, "Recipe") = n /\ Count(doc, "INGREDIENTS:") = n

\* what the claim says of an export step, by the browser and by how the save
\* dialog settled; a write that the file system refuses is not spoken of
ExportAsClaimed ==
    LET f == last'.file
        n == cookbook.length
    IN
    /\ (f.picker /\ f.choice.kind = "handle" /\ f.written) =>
          /\ f.dialog /\ f.via = "picker" /\ f.name = f.choice.name
          /\ IF EndsInJson(f.choice.name) THEN IsJsonOf(f.content, n)
             ELSE IsTextOf(f.content, n)
    /\ ~f.picker =>
          /\ ~f.dialog /\ f.via = "download"
          /\ IsTextOf(f.content, n)
    /\ f.via # "none" =>
          (IsJsonOf(f.content, n) <=> (f.picker /\ EndsInJson(f.choice.name)))
    /\ (f.picker /\ f.choice.kind = "AbortError") =>
          /\ f.via = "none" /\ f.content = <<>>
          /\ last'.toast = "none" /\ ~last'.logged

\* C17: for a cookbook that is not empty, the export writes the JSON encoding
\* when and only when the browser has the save dialog and the chosen name ends
\* in .json, writes the text encoding through the dialog for every other
\* chosen name, and forces a download of the text encoding when the browser
\* has no save dialog; a save that the user cancels gives no file, no error
\* notice and no change of state.
C17_ExportEncoding ==
    [][(/\ last'.op \in {"exportCookbook", "fallbackExport"}
        /\ cookbook.type = "array" /\ cookbook.length >= 1) =>
          /\ ExportAsClaimed
          /\ UNCHANGED <<cookbook, localStorage, searchResults, activeCategory,
                         isLoading, elements, pending>>]_vars

\* a JSON export of two recipes under a name that ends in .json
C17_WitnessJson ==
    /\ last.op = "exportCookbook" /\ last.file.via = "picker"
    /\ EndsInJson(last.file.name) /\ cookbook.length = 2
    /\ IsJsonOf(last.file.content, 2)

(***************************************************************************)
(* Properties of the ingredient list.                                      *)
(***************************************************************************)
\* the text has a character that is no white space
NonBlank(v) == v.type = "string" /\ \E i \in 1..Len(v.text) : v.text[i] # " "

\* the text without its white space
RECURSIVE Squeeze(_)
Squeeze(t) ==
    IF t = <<>> THEN <<>>
    ELSE (IF Head(t) = " " THEN <<>> ELSE <<Head(t)>>) \o Squeeze(Tail(t))

\* the slots 1..20 of the record whose ingredient name is not blank
UsedSlots(slots) == {i \in 1..20 : i <= Len(slots) /\ NonBlank(slots[i].ingredient)}

\* the k-th smallest element of a set of numbers
RECURSIVE Kth(_, _)
Kth(set, k) ==
    LET least == CHOOSE x \in set : \A y \in set : x <= y IN
    IF k = 1 THEN least ELSE Kth(set \ {least}, k - 1)

\* C18: for a recipe record, the list of ingredients has one (ingredient,
\* measure) pair for each of the slots 1..20 whose ingredient name is not blank
\* after trimming and for no other slot, in ascending order of the slots; the
\* measure is the empty text when the record has none; the call does not fail on
\* missing fields and leaves the record as it was.
C18_PairsOfUsedSlots ==
    [][last'.op = "parseIngredients" =>
          LET slots == last.slots
              pairs == last'.ingredients
              used == UsedSlots(slots)
          IN
          /\ ~last'.threw
          /\ Len(pairs) = Cardinality(used)
          /\ \A k \in 1..Len(pairs) :
                LET slot == slots[Kth(used, k)] IN
                /\ Squeeze(pairs[k].ingredient) = Squeeze(slot.ingredient.text)
                /\ pairs[k].ingredient # <<>>
                /\ slot.measure.type # "string" => pairs[k].measure = <<>>
                /\ slot.measure.type = "string" =>
                      Squeeze(pairs[k].measure) = Squeeze(slot.measure.text)
          /\ last'.slots = slots]_vars

\* a record with a blank slot before the last slot, which is used and has no
\* measure
C18_Witness ==
    /\ last.op = "parseIngredients"
    /\ last.slots[1].ingredient = Text(<<" ">>)
    /\ NonBlank(last.slots[20].ingredient) /\ last.slots[20].measure = Missing
    /\ last.ingredients = <<[ingredient |-> <<"c">>, measure |-> <<>>]>>

(***************************************************************************)
(* Properties of the awaits.                                               *)
(***************************************************************************)
\* the step of a user action that sends its first request
SendsFirstFetch == last'.fetches.url \in {"search.php", "filter.php"}

\* the step of a category selection between its filter response and the join
\* of its look-ups
MidBatch == last'.op = "selectCategoryResume" /\ last'.id = "listed"

\* C19: within one user action (search or category selection) no application
\* state is mutated before all the fetches the action awaits have completed:
\* from the sending of the first fetch to the join of the last one, search
\* results, active category and loading flag have the values they had when the
\* action started, and nothing is rendered in the middle of the batch.
C19_NoMutationBeforeJoin ==
    [][/\ SendsFirstFetch => UNCHANGED <<searchResults, activeCategory, isLoading>>
       /\ MidBatch => UNCHANGED <<searchResults, activeCategory, isLoading, elements>>]_vars

\* C19 as amended: the action sets active category, loading flag and pane
\* (Loading, earlier results cleared) in the step that sends its first fetch;
\* from then to the join of its last fetch it mutates and renders nothing, and
\* the search results are assigned only by the step that follows the join.
C19_MutationBeforeFirstFetchOnly ==
    [][/\ SendsFirstFetch =>
             /\ UNCHANGED searchResults
             /\ isLoading' /\ activeCategory' = last'.categoryName
             /\ Pane(elements') = "Loading"
       /\ MidBatch =>
             UNCHANGED <<searchResults, activeCategory, isLoading, elements,
                         cookbook, localStorage>>
       /\ searchResults' # searchResults =>
             /\ last'.op \in {"performSearchResume", "selectCategoryJoin"}
             /\ last'.id = "resolved"]_vars

\* a selection between its filter response and the join of its look-ups, made
\* while the results of an earlier search were on display
C19_Witness ==
    /\ last.op = "selectCategoryResume" /\ last.id = "listed"
    /\ searchResults # <<>> /\ searchResults[1].strCategory # last.categoryName
    /\ activeCategory = last.categoryName /\ isLoading
    /\ Pane(elements) = "Loading"

\* a step in which the response of a search or of a category selection
\* resolved, not rejected, and the operation ended
Resolves ==
    \/ last'.op \in {"performSearchResume", "selectCategoryJoin"} /\ last'.id = "resolved"
    \/ last'.op = "selectCategoryResume" /\ last'.id = "empty"

\* the ids of the recipes of the response that resolved
ResolvedIds ==
    IF last'.op = "selectCategoryJoin"
    THEN KeptUpTo(last'.listed, last'.absent, Len(last'.listed))
    ELSE last'.listed

\* the operation that resolves is the last of operations that overlap: it was
\* suspended when the loading flag was reset by another one, and no other is
\* suspended
LastOfOverlap == Len(pending) = 1 /\ ~isLoading

\* search results and cards are those of the response that resolved
ShowsResolved ==
    /\ Len(searchResults') = Len(ResolvedIds)
    /\ \A i \in 1..Len(ResolvedIds) : searchResults'[i].idMeal = ResolvedIds[i]
    /\ Len(elements'.recipeGrid) = Len(ResolvedIds)
    /\ \A i \in 1..Len(ResolvedIds) : elements'.recipeGrid[i].mealId = ResolvedIds[i]

\* C20: when two result operations (searches, category selections) overlap,
\* the search results and the cards shown in the end are those of the
\* operation whose response resolved last, whichever was issued last; no
\* response is cancelled or dropped because a newer request was issued.
C20_LastResolvedWins ==
    [][(Resolves /\ LastOfOverlap) => ShowsResolved]_vars

\* C20 for the responses that carry a recipe at least
C20_LastResolvedWinsNonEmpty ==
    [][(Resolves /\ LastOfOverlap /\ ResolvedIds # <<>>) => ShowsResolved]_vars

(***************************************************************************)
(* Properties of the remote operations.                                    *)
(***************************************************************************)
\* the run read a response that was not rejected and whose collection field
\* is null or not there
FieldMissing == last'.field \in {"null", "undefined"}

\* what the claim says of such a run: an empty collection (no recipe, for a
\* look-up), and no error: nothing thrown, nothing logged, no error notice
AsEmptyCollection ==
    /\ ~last'.threw /\ ~last'.logged /\ last'.toast # "error"
    /\ last'.id # "rejected"
    /\ last'.listed = <<>>

\* C21: for each of the four remote operations (search, look-up by id, list of
\* categories, filter by category), a response that succeeded and whose
\* collection field is null or absent is turned into an empty collection (no
\* recipe for the look-up) and never into an error or a failed render.
C21_MissingFieldIsEmpty ==
    [][FieldMissing => AsEmptyCollection]_vars

\* C21 for the four operations of src/app.js
C21_MissingFieldIsEmptyInApp ==
    [][(/\ FieldMissing
        /\ last'.op \in {"performSearchResume", "selectCategoryResume",
                         "loadCategories", "handleCardClick"}) =>
          AsEmptyCollection]_vars

\* C21 for fetchMealsByCategory of the lecture version
C21_MissingFieldIsEmptyInLectureFilter ==
    [][(FieldMissing /\ last'.op = "fetchMealsByCategory_part000") =>
          AsEmptyCollection]_vars

(***************************************************************************)
(* Properties of the results pane over the whole run.                      *)
(***************************************************************************)
\* no request is in flight
Quiet == pending = <<>>

\* C22: if every fetch that was issued settles, then after a finite sequence
\* of searches, category selections and deselections the loading flag is
\* false in the end and the pane rests in one of Idle, ResultsShown, Empty,
\* Error; the application does not stay in Loading for ever.
C22_ComesToRest ==
    <>[]Quiet =>
        <>[](/\ ~isLoading
             /\ Pane(elements) \in {"Idle", "ResultsShown", "Empty", "Error"})

\* the part of C22 that holds: the loading flag and the loading indicator are
\* off in the end
C22_LoadingEnds ==
    <>[]Quiet => <>[](~isLoading /\ elements.loadingHidden)

\* while fetches settle the loading flag does not stay true
C22_LoadingLeadsToNotLoading == isLoading ~> ~isLoading

(***************************************************************************)
(* Properties of the cards.                                                *)
(***************************************************************************)
\* every card of the grid has its id in the search results
CardsInResults(el, results) ==
    \A k \in 1..Len(el.recipeGrid) :
        \E i \in 1..Len(results) : results[i].idMeal = el.recipeGrid[k].mealId

\* C23: in every reachable state, also with searches and category selections
\* that overlap, every card of the results grid has its id in the search
\* results, so that the Save button of a card finds its recipe and adds it to
\* the cookbook (or reports it as saved already).
C23_CardsAreInResults ==
    [][/\ CardsInResults(elements', searchResults')
       /\ ~(last'.op = "handleCardClick" /\ last'.id = "notfound")]_vars

\* C23 for the states in which no message is on display
C23_CardsAreInResultsUnlessMessage ==
    [][elements'.messageHidden => CardsInResults(elements', searchResults')]_vars

(***************************************************************************)
(* Properties of the pane in every state.                                  *)
(***************************************************************************)
PaneStates == {"Idle", "Loading", "ResultsShown", "Empty", "Error"}

\* C24: in every reachable state the results pane is in one of Idle, Loading,
\* ResultsShown, Empty and Error exactly: the message is never visible
\* together with cards, and the loading indicator is never visible together
\* with cards or with a message.
C24_OneStateOfFive ==
    /\ Pane(elements) \in PaneStates
    /\ ~(~elements.messageHidden /\ elements.recipeGrid # <<>>)
    /\ ~(~elements.loadingHidden /\ elements.recipeGrid # <<>>)
    /\ ~(~elements.loadingHidden /\ ~elements.messageHidden)

\* C24, the message and the cards
C24_NoMessageWithCards ==
    ~(~elements.messageHidden /\ elements.recipeGrid # <<>>)

\* C24, the loading indicator and the cards
C24_NoLoadingWithCards ==
    ~(~elements.loadingHidden /\ elements.recipeGrid # <<>>)

\* C24, the loading indicator and the message
C24_NoLoadingWithMessage ==
    ~(~elements.loadingHidden /\ ~elements.messageHidden)

(***************************************************************************)
(* Properties of the loading flag.                                         *)
(***************************************************************************)
\* C25: in every reachable state the loading flag is true whenever a search
\* or a category request at least is in flight; it becomes false only when
\* none is outstanding.
C25_LoadingWhileInFlight == pending # <<>> => isLoading

\* the flag becomes false only in the step in which a request settles, and is
\* true after every step that issues one
C25_FalseWhenOneSettles ==
    [][/\ (isLoading /\ ~isLoading') => Len(pending') < Len(pending)
       /\ Len(pending') > Len(pending) => isLoading']_vars

\* the flag is true with nothing in flight in no state
C25_InFlightWhileLoading == isLoading => pending # <<>>

(***************************************************************************)
(* Properties of the Save buttons of the cards.                            *)
(***************************************************************************)
\* C26: in every reachable state each card of the grid is marked saved if and
\* only if the id of its recipe is in the cookbook, after any sequence of
\* load, search, category selection, add, remove and clear.
C26_SavedIffInCookbook ==
    \A k \in 1..Len(elements.recipeGrid) :
        elements.recipeGrid[k].saved
           <=> HasId(cookbook, elements.recipeGrid[k].mealId)

\* no two entries of the cookbook have the same id
NoTwoWithOneId(v) ==
    v.type = "array" =>
       \A i, j \in 1..Len(v.items) :
           (v.items[i].type = "object" /\ v.items[j].type = "object"
               /\ v.items[i].idMeal = v.items[j].idMeal) => i = j

\* C26 for a cookbook that has no id twice
C26_SavedIffInCookbookNoTwice ==
    [](NoTwoWithOneId(loadCookbookFromStorage(localStorage)) /\ NoTwoWithOneId(cookbook))
       => []C26_SavedIffInCookbook

(***************************************************************************)
(* Properties of the two halves of the state.                              *)
(***************************************************************************)
SearchOps ==
    {"performSearch", "performSearchResume", "selectCategory",
     "selectCategoryResume", "selectCategoryJoin", "exportCookbook",
     "fallbackExport"}

CookbookOps == {"addToCookbook", "removeFromCookbook", "clearCookbook"}

\* C27: the submission of a search, the selection and the deselection of a
\* category and the export never change the cookbook nor the durable store;
\* add, remove and clear never change the search results, the active category
\* nor the loading flag.
C27_TwoHalves ==
    [][/\ last'.op \in SearchOps =>
             cookbook' = cookbook /\ localStorage' = localStorage
       /\ last'.op \in CookbookOps =>
             /\ searchResults' = searchResults
             /\ activeCategory' = activeCategory
             /\ isLoading' = isLoading]_vars

\* the cookbook was cleared over a search in flight, with results and an
\* active category on the page and a cookbook in the store
C27_WitnessClear ==
    /\ last.op = "clearCookbook" /\ last.toast = "info"
    /\ searchResults # <<>> /\ activeCategory # null /\ isLoading

\* a search resumed over a cookbook that is not empty and is in the store
C27_WitnessSearch ==
    /\ last.op = "performSearchResume" /\ searchResults # <<>>
    /\ cookbook = Arr(<<Meal("m1", "Seafood")>>)
    /\ Holds(localStorage, cookbook)

====
